---------------------------- MODULE Spec2Model ----------------------------
(***************************************************************************)
(* A model of arc_ilp: the type-directed hypothesis generator              *)
(* (generator.py, hypothesis.py, types.py), the evaluator (evaluator.py),  *)
(* the renderer (codegen.py) and the iterative-deepening search loop       *)
(* (search.py).                                                            *)
(*                                                                         *)
(* Python values are encoded as follows.                                   *)
(*   Optional[x]      <<>> for None, <<x>> otherwise                       *)
(*   tuple / list     a sequence                                           *)
(*   dict             a sequence of entries in insertion order             *)
(*   str (rendered)   a sequence of string pieces, one sequence per line   *)
(*   time.time()      integer ticks elapsed since start_time               *)
(***************************************************************************)
EXTENDS Integers, Sequences, FiniteSets, TLC

(***************************************************************************)
(* Bounds of the model.                                                    *)
(***************************************************************************)
\* Entries of each type kept from the CONSTANTS registry (in source order).
ConstsPerType == 2
\* The interpreter's recursion limit, scaled down: generate_at_depth(d)
\* nests d generator frames and fails beyond the limit.
RecursionLimit == 3
\* The largest clock reading; time stands still once it is reached.
MaxClock == 3
\* The largest number of inputs of the function types the type rules are tried on.
MaxArity == 2
\* The longest example list evaluate_hypothesis is called on.
MaxExamples == 2
\* enumerate_solutions is given limits from 0 to this one.
MaxSolutions == 3
\* The clock of search_with_callback stops at this many ticks.
MaxCallbackClock == 4

\* The clock ticks in half seconds: the 0.5 of search_with_callback.
CALLBACK_INTERVAL == 1

\* A direct call of one of the package's functions.
VARIABLES
    call,           \* the call: [fn, args]
    ret,            \* None or what the call returned
    prev            \* history: what the same call returned the time before

None == <<>>
Some(x) == <<x>>

(***************************************************************************)
(* Sequence helpers.                                                       *)
(***************************************************************************)
RECURSIVE Flatten(_)
Flatten(ss) == IF ss = <<>> THEN <<>> ELSE Head(ss) \o Flatten(Tail(ss))

Range(s) == {s[i] : i \in 1..Len(s)}

(***************************************************************************)
(* types.py                                                                *)
(***************************************************************************)
BaseType(n) == [kind |-> "base", name |-> n, input_types |-> <<>>, output_type |-> <<>>]

CallableType(ins, out) ==
    [kind |-> "callable", name |-> "", input_types |-> ins, output_type |-> <<out>>]

BOOLEAN_T == BaseType("BOOLEAN")
INTEGER == BaseType("INTEGER")
INTEGER_TUPLE == BaseType("INTEGER_TUPLE")
GRID == BaseType("GRID")
CELL == BaseType("CELL")
OBJECT == BaseType("OBJECT")
OBJECTS == BaseType("OBJECTS")
INDICES == BaseType("INDICES")
INDICES_SET == BaseType("INDICES_SET")
INTEGER_SET == BaseType("INTEGER_SET")
TUPLE == BaseType("TUPLE")
TUPLE_TUPLE == BaseType("TUPLE_TUPLE")
CONTAINER == BaseType("CONTAINER")
CONTAINER_CONTAINER == BaseType("CONTAINER_CONTAINER")
FROZENSET == BaseType("FROZENSET")
ANY == BaseType("ANY")

IsCallable(t) == t.kind = "callable"

PATCH == {OBJECT, INDICES}
ELEMENT == {OBJECT, GRID}
PIECE == {GRID, OBJECT, INDICES}
CONTAINER_TYPES == {OBJECTS, INDICES, INTEGER_SET, TUPLE, GRID, OBJECT, CONTAINER}
FROZENSET_TYPES == {OBJECT, OBJECTS, INDICES, INDICES_SET, INTEGER_SET, FROZENSET}

\* MUTANT of is_type_compatible: the wildcard is honoured on the parameter side only.
is_type_compatible_param_any(arg_type, param_type) ==
    IF param_type = ANY THEN TRUE
    ELSE IF arg_type = param_type THEN TRUE
    ELSE IF param_type = INTEGER_TUPLE /\ arg_type = INTEGER THEN FALSE
    ELSE IF param_type = CONTAINER
        THEN arg_type \in CONTAINER_TYPES \/ arg_type = CONTAINER
    ELSE IF param_type = CONTAINER_CONTAINER
        THEN arg_type \in {OBJECTS, INDICES_SET, TUPLE_TUPLE, CONTAINER_CONTAINER}
    ELSE IF param_type = FROZENSET THEN arg_type \in FROZENSET_TYPES
    ELSE IF param_type \in PATCH /\ arg_type \in PATCH THEN TRUE
    ELSE IF param_type \in ELEMENT /\ arg_type \in ELEMENT THEN TRUE
    ELSE IF param_type \in PIECE /\ arg_type \in PIECE THEN TRUE
    ELSE IF param_type = TUPLE
        THEN arg_type \in {TUPLE, GRID, INTEGER_TUPLE, TUPLE_TUPLE}
    ELSE IF IsCallable(param_type) /\ IsCallable(arg_type)
        THEN Len(param_type.input_types) = Len(arg_type.input_types)
    ELSE IF IsCallable(param_type) THEN IsCallable(arg_type)
    ELSE FALSE

\* MUTANT of is_type_compatible: two function types must agree on their input types.
is_type_compatible_unify(arg_type, param_type) ==
    IF param_type = ANY THEN TRUE
    ELSE IF arg_type = ANY THEN TRUE
    ELSE IF arg_type = param_type THEN TRUE
    ELSE IF param_type = INTEGER_TUPLE /\ arg_type = INTEGER THEN FALSE
    ELSE IF param_type = CONTAINER
        THEN arg_type \in CONTAINER_TYPES \/ arg_type = CONTAINER
    ELSE IF param_type = CONTAINER_CONTAINER
        THEN arg_type \in {OBJECTS, INDICES_SET, TUPLE_TUPLE, CONTAINER_CONTAINER}
    ELSE IF param_type = FROZENSET THEN arg_type \in FROZENSET_TYPES
    ELSE IF param_type \in PATCH /\ arg_type \in PATCH THEN TRUE
    ELSE IF param_type \in ELEMENT /\ arg_type \in ELEMENT THEN TRUE
    ELSE IF param_type \in PIECE /\ arg_type \in PIECE THEN TRUE
    ELSE IF param_type = TUPLE
        THEN arg_type \in {TUPLE, GRID, INTEGER_TUPLE, TUPLE_TUPLE}
    ELSE IF IsCallable(param_type) /\ IsCallable(arg_type)
        THEN param_type.input_types = arg_type.input_types
    ELSE IF IsCallable(param_type) THEN IsCallable(arg_type)
    ELSE FALSE

\* The rules in the order the code tests them; the first that applies decides.
is_type_compatible(arg_type, param_type) ==
    IF param_type = ANY THEN TRUE
    ELSE IF arg_type = ANY THEN TRUE
    ELSE IF arg_type = param_type THEN TRUE
    ELSE IF param_type = INTEGER_TUPLE /\ arg_type = INTEGER THEN FALSE
    ELSE IF param_type = CONTAINER
        THEN arg_type \in CONTAINER_TYPES \/ arg_type = CONTAINER
    ELSE IF param_type = CONTAINER_CONTAINER
        THEN arg_type \in {OBJECTS, INDICES_SET, TUPLE_TUPLE, CONTAINER_CONTAINER}
    ELSE IF param_type = FROZENSET THEN arg_type \in FROZENSET_TYPES
    ELSE IF param_type \in PATCH /\ arg_type \in PATCH THEN TRUE
    ELSE IF param_type \in ELEMENT /\ arg_type \in ELEMENT THEN TRUE
    ELSE IF param_type \in PIECE /\ arg_type \in PIECE THEN TRUE
    ELSE IF param_type = TUPLE
        THEN arg_type \in {TUPLE, GRID, INTEGER_TUPLE, TUPLE_TUPLE}
    ELSE IF IsCallable(param_type) /\ IsCallable(arg_type)
        THEN Len(param_type.input_types) = Len(arg_type.input_types)
    ELSE IF IsCallable(param_type) THEN IsCallable(arg_type)
    ELSE FALSE

(***************************************************************************)
(* primitives.py                                                           *)
(***************************************************************************)
PrimitiveInfo(n, ptypes, rtype) == [name |-> n, param_types |-> ptypes, return_type |-> rtype]

GenericCallable == CallableType(<<ANY>>, ANY)

HIGHER_ORDER_RETURNING_CALLABLE ==
    << [name |-> "compose", type |-> GenericCallable],
       [name |-> "chain", type |-> GenericCallable],
       [name |-> "fork", type |-> GenericCallable],
       [name |-> "lbind", type |-> GenericCallable],
       [name |-> "rbind", type |-> GenericCallable],
       [name |-> "matcher", type |-> CallableType(<<ANY>>, BOOLEAN_T)],
       [name |-> "power", type |-> GenericCallable] >>

FUNCTION_TAKING_PRIMITIVES ==
    {"compose", "chain", "fork", "lbind", "rbind", "matcher", "power",
     "apply", "mapply", "sfilter", "mfilter", "argmax", "argmin",
     "order", "extract", "valmax", "valmin", "rapply", "papply", "mpapply", "prapply"}

\* dict.get(key): <<>> when the key is absent, <<value>> otherwise.
DictGet(d, key) ==
    LET hits == {i \in 1..Len(d) : d[i].name = key}
    IN  IF hits = {} THEN None ELSE Some(d[CHOOSE i \in hits : TRUE])

(***************************************************************************)
(* hypothesis.py                                                           *)
(***************************************************************************)
Argument(k, v) == [kind |-> k, value |-> v]

PrimitiveCall(prim, args, out) ==
    [tag |-> "PrimitiveCall", callee |-> prim, arguments |-> args, output_var |-> out]

CallVariable(var, args, out) ==
    [tag |-> "CallVariable", callee |-> var, arguments |-> args, output_var |-> out]

Hypothesis(steps) == [steps |-> steps]

\* TypeEnv(): only the input is bound.
TypeEnv == << [name |-> "I", type |-> GRID] >>

\* TypeEnv.add: an assignment to a dict key keeps the key's first position.
EnvAdd(env, n, t) ==
    IF \E i \in 1..Len(env) : env[i].name = n
    THEN [i \in 1..Len(env) |-> IF env[i].name = n THEN [name |-> n, type |-> t] ELSE env[i]]
    ELSE Append(env, [name |-> n, type |-> t])

\* TypeEnv.get
EnvGet(env, n) ==
    LET e == DictGet(env, n) IN IF e = None THEN None ELSE Some(e[1].type)

get_callable_vars(env) ==
    Flatten([i \in 1..Len(env) |-> IF IsCallable(env[i].type) THEN <<env[i].name>> ELSE <<>>])

\* The type build_type_env gives the output of one step in environment env.
StepType(step, env, primitives) ==
    IF step.tag = "PrimitiveCall"
    THEN IF DictGet(primitives, step.callee) # None
         THEN LET ho == DictGet(HIGHER_ORDER_RETURNING_CALLABLE, step.callee)
              IN  IF ho # None THEN ho[1].type
                  ELSE DictGet(primitives, step.callee)[1].return_type
         ELSE ANY
    ELSE LET callee_type == EnvGet(env, step.callee)
         IN  IF callee_type # None /\ IsCallable(callee_type[1])
             THEN callee_type[1].output_type[1]
             ELSE ANY

RECURSIVE ReplaySteps(_, _, _)
ReplaySteps(steps, env, primitives) ==
    IF steps = <<>> THEN env
    ELSE ReplaySteps(Tail(steps),
                     EnvAdd(env, Head(steps).output_var, StepType(Head(steps), env, primitives)),
                     primitives)

build_type_env(hypothesis, primitives) == ReplaySteps(hypothesis.steps, TypeEnv, primitives)

\* MUTANT of next_var_name: the name is numbered by the steps present.
next_var_name_same(hypothesis) == <<"x1", "x2", "x3", "x4", "x5", "x6", "x7", "x8", "x9">>[Len(hypothesis.steps)]

\* f"x{n}" for the n the model reaches.
XNames == <<"x1", "x2", "x3", "x4", "x5", "x6", "x7", "x8", "x9">>

next_var_name(hypothesis) == XNames[Len(hypothesis.steps) + 1]

(***************************************************************************)
(* generator.py                                                            *)
(***************************************************************************)
\* The constants registry, name -> type, in source order.
CONSTANTS_REGISTRY ==
    << [name |-> "T", type |-> BOOLEAN_T], [name |-> "F", type |-> BOOLEAN_T],
       [name |-> "ZERO", type |-> INTEGER], [name |-> "ONE", type |-> INTEGER],
       [name |-> "TWO", type |-> INTEGER], [name |-> "THREE", type |-> INTEGER],
       [name |-> "FOUR", type |-> INTEGER], [name |-> "FIVE", type |-> INTEGER],
       [name |-> "SIX", type |-> INTEGER], [name |-> "SEVEN", type |-> INTEGER],
       [name |-> "EIGHT", type |-> INTEGER], [name |-> "NINE", type |-> INTEGER],
       [name |-> "TEN", type |-> INTEGER], [name |-> "NEG_ONE", type |-> INTEGER],
       [name |-> "NEG_TWO", type |-> INTEGER],
       [name |-> "DOWN", type |-> INTEGER_TUPLE], [name |-> "RIGHT", type |-> INTEGER_TUPLE],
       [name |-> "UP", type |-> INTEGER_TUPLE], [name |-> "LEFT", type |-> INTEGER_TUPLE],
       [name |-> "ORIGIN", type |-> INTEGER_TUPLE], [name |-> "UNITY", type |-> INTEGER_TUPLE],
       [name |-> "NEG_UNITY", type |-> INTEGER_TUPLE], [name |-> "UP_RIGHT", type |-> INTEGER_TUPLE],
       [name |-> "DOWN_LEFT", type |-> INTEGER_TUPLE], [name |-> "ZERO_BY_TWO", type |-> INTEGER_TUPLE],
       [name |-> "TWO_BY_ZERO", type |-> INTEGER_TUPLE], [name |-> "TWO_BY_TWO", type |-> INTEGER_TUPLE],
       [name |-> "THREE_BY_THREE", type |-> INTEGER_TUPLE] >>

\* The registry the model generates from: the first ConstsPerType entries of
\* each type, in registry order.
ConstantsTable ==
    LET reg == CONSTANTS_REGISTRY
        rank(i) == Cardinality({j \in 1..i : reg[j].type = reg[i].type})
    IN  Flatten([i \in 1..Len(reg) |-> IF rank(i) <= ConstsPerType THEN <<reg[i]>> ELSE <<>>])

\* MUTANT of get_possible_arguments: I is not skipped among the variables.
get_possible_arguments_input_variable(param_type, env, primitives, include_primitives) ==
    LET input == IF is_type_compatible(GRID, param_type)
                 THEN << Argument("input", "I") >> ELSE <<>>
        consts == Flatten([i \in 1..Len(ConstantsTable) |->
                     IF is_type_compatible(ConstantsTable[i].type, param_type)
                     THEN << Argument("constant", ConstantsTable[i].name) >> ELSE <<>>])
        vars == Flatten([i \in 1..Len(env) |->
                     IF is_type_compatible(env[i].type, param_type)
                     THEN << Argument("variable", env[i].name) >> ELSE <<>>])
        prims == IF include_primitives \/ IsCallable(param_type)
                 THEN Flatten([i \in 1..Len(primitives) |->
                        IF is_type_compatible(
                              CallableType(primitives[i].param_types, primitives[i].return_type),
                              param_type)
                        THEN << Argument("primitive", primitives[i].name) >> ELSE <<>>])
                 ELSE <<>>
    IN  input \o consts \o vars \o prims

\* MUTANT of get_possible_arguments: the primitives are offered whatever
\* include_primitives and the parameter type are.
get_possible_arguments_refs_always(param_type, env, primitives, include_primitives) ==
    LET input == IF is_type_compatible(GRID, param_type)
                 THEN << Argument("input", "I") >> ELSE <<>>
        consts == Flatten([i \in 1..Len(ConstantsTable) |->
                     IF is_type_compatible(ConstantsTable[i].type, param_type)
                     THEN << Argument("constant", ConstantsTable[i].name) >> ELSE <<>>])
        vars == Flatten([i \in 1..Len(env) |->
                     IF env[i].name # "I" /\ is_type_compatible(env[i].type, param_type)
                     THEN << Argument("variable", env[i].name) >> ELSE <<>>])
        prims == Flatten([i \in 1..Len(primitives) |->
                        IF is_type_compatible(
                              CallableType(primitives[i].param_types, primitives[i].return_type),
                              param_type)
                        THEN << Argument("primitive", primitives[i].name) >> ELSE <<>>])
    IN  input \o consts \o vars \o prims

get_possible_arguments(param_type, env, primitives, include_primitives) ==
    LET input == IF is_type_compatible(GRID, param_type)
                 THEN << Argument("input", "I") >> ELSE <<>>
        consts == Flatten([i \in 1..Len(ConstantsTable) |->
                     IF is_type_compatible(ConstantsTable[i].type, param_type)
                     THEN << Argument("constant", ConstantsTable[i].name) >> ELSE <<>>])
        vars == Flatten([i \in 1..Len(env) |->
                     IF env[i].name # "I" /\ is_type_compatible(env[i].type, param_type)
                     THEN << Argument("variable", env[i].name) >> ELSE <<>>])
        prims == IF include_primitives \/ IsCallable(param_type)
                 THEN Flatten([i \in 1..Len(primitives) |->
                        IF is_type_compatible(
                              CallableType(primitives[i].param_types, primitives[i].return_type),
                              param_type)
                        THEN << Argument("primitive", primitives[i].name) >> ELSE <<>>])
                 ELSE <<>>
    IN  input \o consts \o vars \o prims

\* itertools.product: the last position varies fastest.
RECURSIVE Product(_)
Product(options) ==
    IF options = <<>> THEN << <<>> >>
    ELSE LET rest == Product(Tail(options))
             first == Head(options)
         IN  Flatten([i \in 1..Len(first) |->
                       [j \in 1..Len(rest) |-> <<first[i]>> \o rest[j]]])

\* MUTANT of BindingsOf: the positions are zipped, not multiplied.
BindingsOf_zipped(param_options) ==
    IF Len(param_options) = 0 THEN << <<>> >>
    ELSE IF \E i \in 1..Len(param_options) : param_options[i] = <<>> THEN <<>>
    ELSE << [i \in 1..Len(param_options) |-> param_options[i][1]] >>

\* The bindings of a parameter list, given each position's options.
BindingsOf(param_options) ==
    IF Len(param_options) = 0 THEN << <<>> >>
    ELSE IF \E i \in 1..Len(param_options) : param_options[i] = <<>> THEN <<>>
    ELSE Product(param_options)

enumerate_bindings(prim_info, env, primitives) ==
    BindingsOf([i \in 1..Len(prim_info.param_types) |->
        get_possible_arguments(prim_info.param_types[i], env, primitives,
            prim_info.name \in FUNCTION_TAKING_PRIMITIVES
              /\ IsCallable(prim_info.param_types[i]))])

enumerate_call_bindings(callable_type, env, primitives) ==
    BindingsOf([i \in 1..Len(callable_type.input_types) |->
        get_possible_arguments(callable_type.input_types[i], env, primitives, FALSE)])

\* The steps "name = prim(binding)" for every binding of one primitive.
PrimitiveSteps(prim_info, env, primitives, out) ==
    LET bs == enumerate_bindings(prim_info, env, primitives)
    IN  [i \in 1..Len(bs) |-> PrimitiveCall(prim_info.name, bs[i], out)]

\* MUTANT of generate_single_step: the return type is not tested.
generate_single_step_unfiltered(primitives) ==
    Flatten([p \in 1..Len(primitives) |->
        LET steps == PrimitiveSteps(primitives[p], TypeEnv, primitives, "O")
        IN  [i \in 1..Len(steps) |-> Hypothesis(<<steps[i]>>)]])

generate_single_step(primitives) ==
    Flatten([p \in 1..Len(primitives) |->
        IF ~is_type_compatible(primitives[p].return_type, GRID) THEN <<>>
        ELSE LET steps == PrimitiveSteps(primitives[p], TypeEnv, primitives, "O")
             IN  [i \in 1..Len(steps) |-> Hypothesis(<<steps[i]>>)]])

extend_hypothesis(partial, primitives, is_final) ==
    LET env == build_type_env(partial, primitives)
        new_var == IF is_final THEN "O" ELSE next_var_name(partial)
        callable_vars == get_callable_vars(env)
        prim_calls ==
            Flatten([p \in 1..Len(primitives) |->
                IF is_final /\ ~is_type_compatible(primitives[p].return_type, GRID) THEN <<>>
                ELSE PrimitiveSteps(primitives[p], env, primitives, new_var)])
        var_calls ==
            Flatten([v \in 1..Len(callable_vars) |->
                LET var_type == EnvGet(env, callable_vars[v])[1]
                IN  IF is_final /\ ~is_type_compatible(var_type.output_type[1], GRID) THEN <<>>
                    ELSE LET bs == enumerate_call_bindings(var_type, env, primitives)
                         IN  [i \in 1..Len(bs) |->
                                CallVariable(callable_vars[v], bs[i], new_var)]])
        new_steps == prim_calls \o var_calls
    IN  [i \in 1..Len(new_steps) |-> Hypothesis(Append(partial.steps, new_steps[i]))]

RECURSIVE generate_partials_at_depth(_, _)
generate_partials_at_depth(depth, primitives) ==
    IF depth = 1
    THEN Flatten([p \in 1..Len(primitives) |->
            LET steps == PrimitiveSteps(primitives[p], TypeEnv, primitives, "x1")
            IN  [i \in 1..Len(steps) |-> Hypothesis(<<steps[i]>>)]])
    ELSE LET partials == generate_partials_at_depth(depth - 1, primitives)
         IN  Flatten([i \in 1..Len(partials) |->
                        extend_hypothesis(partials[i], primitives, FALSE)])

\* Every partial of the list extended by a final step.
ExtendFinal(partials, primitives) ==
    Flatten([i \in 1..Len(partials) |-> extend_hypothesis(partials[i], primitives, TRUE)])

\* MUTANT of generate_at_depth: the catalog is walked backwards once a
\* first run has returned, as iterating a hash-ordered collection could.
generate_at_depth_unstable(depth, primitives) ==
    LET catalog == IF ret = None THEN primitives
                   ELSE [i \in 1..Len(primitives) |-> primitives[Len(primitives) + 1 - i]]
    IN  IF depth = 1 THEN generate_single_step(catalog)
        ELSE ExtendFinal(generate_partials_at_depth(depth - 1, catalog), catalog)

\* MUTANT of generate_at_depth: at depth 2 the first steps are taken from
\* generate_single_step, which keeps grid-returning primitives only.
generate_at_depth_grid_partials(depth, primitives) ==
    IF depth = 1 THEN generate_single_step(primitives)
    ELSE IF depth = 2
    THEN ExtendFinal(
            [i \in 1..Len(generate_single_step(primitives)) |->
                LET step == generate_single_step(primitives)[i].steps[1]
                IN  Hypothesis(<< [step EXCEPT !.output_var = "x1"] >>)],
            primitives)
    ELSE ExtendFinal(generate_partials_at_depth(depth - 1, primitives), primitives)

\* MUTANT of generate_at_depth: the partials are taken at depth, not depth - 1.
generate_at_depth_skip(depth, primitives) ==
    ExtendFinal(generate_partials_at_depth(depth, primitives), primitives)

\* The sequence the generator yields, in the order it yields it.
generate_at_depth(depth, primitives) ==
    IF depth = 1 THEN generate_single_step(primitives)
    ELSE IF depth = 2
    THEN ExtendFinal(
            Flatten([p \in 1..Len(primitives) |->
                LET steps == PrimitiveSteps(primitives[p], TypeEnv, primitives, "x1")
                IN  [i \in 1..Len(steps) |-> Hypothesis(<<steps[i]>>)]]),
            primitives)
    ELSE ExtendFinal(generate_partials_at_depth(depth - 1, primitives), primitives)

(***************************************************************************)
(* Runtime values.  Every value is a record of one shape, so that any two  *)
(* values can be compared, as Python compares any two objects:             *)
(*   k = "grid"   g = the rows, each a sequence of cells                   *)
(*   k = "tuple"  g = <<t>>, t a flat tuple of integers                    *)
(*   k = "int"    n = the integer;  k = "bool"  n = 1 for True, 0 for False*)
(*   k = "fn"     f = the primitives a callable applies, innermost first   *)
(*   k = "err"    the evaluation raised an exception                       *)
(***************************************************************************)
Value(k, g, n, f) == [k |-> k, g |-> g, n |-> n, f |-> f]
GridV(rows) == Value("grid", rows, 0, <<>>)
TupleV(t) == Value("tuple", <<t>>, 0, <<>>)
IntV(n) == Value("int", <<>>, n, <<>>)
BoolV(b) == Value("bool", <<>>, IF b THEN 1 ELSE 0, <<>>)
FnV(chain) == Value("fn", <<>>, 0, chain)
ERR == Value("err", <<>>, 0, <<>>)

Reverse(s) == [i \in 1..Len(s) |-> s[Len(s) + 1 - i]]

\* Python's order on tuples of integers.
RECURSIVE TupleLess(_, _)
TupleLess(a, b) ==
    IF b = <<>> THEN FALSE
    ELSE IF a = <<>> THEN TRUE
    ELSE IF Head(a) # Head(b) THEN Head(a) < Head(b)
    ELSE TupleLess(Tail(a), Tail(b))

(***************************************************************************)
(* The primitive library the searches run on: the dsl functions the tests  *)
(* call (vmirror, hmirror, vconcat, replace), two higher-order ones and    *)
(* one whose parameter no argument fits.  DslCall(name, args) is the call  *)
(* the dsl function of that name on args, for the argument kinds a hypothesis *)
(* over these libraries can pass; a call Python rejects is ERR.            *)
(***************************************************************************)
\* What a callable holds when it was built from v.
ChainOf(v) == IF v.k = "fn" THEN v.f ELSE <<"!">>

RECURSIVE DslCall(_, _)
RECURSIVE CallValue(_, _)
RECURSIVE CallChain(_, _)

\* The call of a runtime value func on the argument list args.
CallValue(func, args) ==
    IF func.k # "fn" THEN ERR
    ELSE IF Len(func.f) = 1 THEN DslCall(func.f[1], args)
    ELSE IF Len(args) # 1 THEN ERR
    ELSE CallChain(func.f, args[1])

CallChain(chain, x) ==
    IF chain = <<>> THEN x
    ELSE LET y == DslCall(Head(chain), <<x>>)
         IN  IF y = ERR THEN ERR ELSE CallChain(Tail(chain), y)

DslCall(name, args) ==
    IF \E i \in 1..Len(args) : args[i] = ERR THEN ERR
    ELSE IF name = "vmirror" THEN
        IF Len(args) = 1 /\ args[1].k = "grid"
        THEN GridV([r \in 1..Len(args[1].g) |-> Reverse(args[1].g[r])])
        ELSE ERR
    ELSE IF name = "hmirror" THEN
        IF Len(args) = 1 /\ args[1].k = "grid" THEN GridV(Reverse(args[1].g))
        ELSE IF Len(args) = 1 /\ args[1].k = "tuple" THEN TupleV(Reverse(args[1].g[1]))
        ELSE ERR
    ELSE IF name = "vconcat" THEN
        IF Len(args) = 2 /\ args[1].k = "grid" /\ args[2].k = "grid"
        THEN GridV(args[1].g \o args[2].g)
        ELSE ERR
    ELSE IF name = "replace" THEN
        IF Len(args) = 3 /\ args[1].k = "grid" /\ args[2].k = "int" /\ args[3].k = "int"
        THEN GridV([r \in 1..Len(args[1].g) |->
                      [c \in 1..Len(args[1].g[r]) |->
                         IF args[1].g[r][c] = args[2].n THEN args[3].n
                         ELSE args[1].g[r][c]]])
        ELSE ERR
    ELSE IF name = "compose" THEN
        IF Len(args) = 2 THEN FnV(ChainOf(args[2]) \o ChainOf(args[1])) ELSE ERR
    ELSE IF name = "argmax" THEN
        IF Len(args) = 2 /\ args[1].k = "grid" /\ args[1].g # <<>>
        THEN LET rows == args[1].g
                 keys == [r \in 1..Len(rows) |-> CallValue(args[2], <<TupleV(rows[r])>>)]
             IN  IF \E r \in 1..Len(rows) : keys[r].k # "tuple" THEN ERR
                 ELSE LET best == CHOOSE r \in 1..Len(rows) :
                                    /\ \A q \in 1..Len(rows) :
                                          ~TupleLess(keys[r].g[1], keys[q].g[1])
                                    /\ \A q \in 1..(r - 1) :
                                          TupleLess(keys[q].g[1], keys[r].g[1])
                      IN  TupleV(rows[best])
        ELSE ERR
    ELSE ERR

\* The constants module: name -> value.
ConstantsModule ==
    << [name |-> "T", value |-> BoolV(TRUE)], [name |-> "F", value |-> BoolV(FALSE)],
       [name |-> "ZERO", value |-> IntV(0)], [name |-> "ONE", value |-> IntV(1)],
       [name |-> "TWO", value |-> IntV(2)], [name |-> "THREE", value |-> IntV(3)],
       [name |-> "DOWN", value |-> TupleV(<<1, 0>>)], [name |-> "RIGHT", value |-> TupleV(<<0, 1>>)],
       [name |-> "UP", value |-> TupleV(<<-1, 0>>)], [name |-> "LEFT", value |-> TupleV(<<0, -1>>)] >>

(***************************************************************************)
(* evaluator.py.  dsl_module is the sequence of PrimitiveInfo of the       *)
(* functions the module defines; constants_module maps names to values.    *)
(***************************************************************************)
resolve_arg(arg, env, dsl_module, constants_module) ==
    IF arg.kind = "constant"
    THEN LET c == DictGet(constants_module, arg.value)
         IN  IF c = None THEN ERR ELSE c[1].value
    ELSE IF arg.kind = "variable"
    THEN LET v == DictGet(env, arg.value)
         IN  IF v = None THEN ERR ELSE v[1].value
    ELSE IF arg.kind = "input" THEN DictGet(env, "I")[1].value
    ELSE IF arg.kind = "primitive"
    THEN IF DictGet(dsl_module, arg.value) = None THEN ERR ELSE FnV(<<arg.value>>)
    ELSE ERR

\* env[name] = value
EnvSet(env, n, v) ==
    IF \E i \in 1..Len(env) : env[i].name = n
    THEN [i \in 1..Len(env) |-> IF env[i].name = n THEN [name |-> n, value |-> v] ELSE env[i]]
    ELSE Append(env, [name |-> n, value |-> v])

\* The result of one step in env, ERR when anything it needs is undefined
\* or the call fails.
StepResult(step, env, dsl_module, constants_module) ==
    LET func == IF step.tag = "PrimitiveCall"
                THEN IF DictGet(dsl_module, step.callee) = None THEN ERR
                     ELSE FnV(<<step.callee>>)
                ELSE LET v == DictGet(env, step.callee)
                     IN  IF v = None THEN ERR ELSE v[1].value
        args == [i \in 1..Len(step.arguments) |->
                   resolve_arg(step.arguments[i], env, dsl_module, constants_module)]
    IN  IF func = ERR \/ \E i \in 1..Len(args) : args[i] = ERR THEN ERR
        ELSE CallValue(func, args)

RECURSIVE RunSteps(_, _, _, _)
RunSteps(steps, env, dsl_module, constants_module) ==
    IF steps = <<>>
    THEN LET o == DictGet(env, "O") IN IF o = None THEN ERR ELSE o[1].value
    ELSE LET result == StepResult(Head(steps), env, dsl_module, constants_module)
         IN  IF result = ERR THEN ERR
             ELSE RunSteps(Tail(steps), EnvSet(env, Head(steps).output_var, result),
                           dsl_module, constants_module)

\* MUTANT of execute_hypothesis: the result of the last step is returned,
\* whatever variable it was stored under.
execute_hypothesis_last_result(hypothesis, input_grid, dsl_module, constants_module) ==
    LET n == Len(hypothesis.steps)
        steps == [i \in 1..n |-> IF i = n THEN [hypothesis.steps[i] EXCEPT !.output_var = "O"]
                                 ELSE hypothesis.steps[i]]
    IN  RunSteps(steps, << [name |-> "I", value |-> input_grid] >>,
                 dsl_module, constants_module)

execute_hypothesis(hypothesis, input_grid, dsl_module, constants_module) ==
    RunSteps(hypothesis.steps, << [name |-> "I", value |-> input_grid] >>,
             dsl_module, constants_module)

\* MUTANT of evaluate_hypothesis: only the first example is looked at.
evaluate_hypothesis_first(hypothesis, examples, dsl_module, constants_module) ==
    IF examples = <<>> THEN TRUE
    ELSE LET output == execute_hypothesis(hypothesis, Head(examples)[1],
                                          dsl_module, constants_module)
         IN  output # ERR /\ output = Head(examples)[2]

\* MUTANT of evaluate_hypothesis: the verdict is that of the last example.
evaluate_hypothesis_last(hypothesis, examples, dsl_module, constants_module) ==
    IF examples = <<>> THEN TRUE
    ELSE LET output == execute_hypothesis(hypothesis, examples[Len(examples)][1],
                                          dsl_module, constants_module)
         IN  output # ERR /\ output = examples[Len(examples)][2]

\* MUTANT of evaluate_hypothesis: an example whose execution fails is passed over.
RECURSIVE evaluate_hypothesis_lenient(_, _, _, _)
evaluate_hypothesis_lenient(hypothesis, examples, dsl_module, constants_module) ==
    IF examples = <<>> THEN TRUE
    ELSE LET output == execute_hypothesis(hypothesis, Head(examples)[1],
                                          dsl_module, constants_module)
         IN  IF output # ERR /\ output # Head(examples)[2] THEN FALSE
             ELSE evaluate_hypothesis_lenient(hypothesis, Tail(examples),
                                              dsl_module, constants_module)

RECURSIVE evaluate_hypothesis(_, _, _, _)
evaluate_hypothesis(hypothesis, examples, dsl_module, constants_module) ==
    IF examples = <<>> THEN TRUE
    ELSE LET output == execute_hypothesis(hypothesis, Head(examples)[1],
                                          dsl_module, constants_module)
         IN  IF output = ERR THEN FALSE
             ELSE IF output # Head(examples)[2] THEN FALSE
             ELSE evaluate_hypothesis(hypothesis, Tail(examples), dsl_module, constants_module)

(***************************************************************************)
(* codegen.py.  A text is a sequence of lines, a line a sequence of pieces.*)
(***************************************************************************)
format_arg(arg) ==
    IF arg.kind = "constant" THEN arg.value
    ELSE IF arg.kind = "variable" THEN arg.value
    ELSE IF arg.kind = "input" THEN "I"
    ELSE IF arg.kind = "primitive" THEN arg.value
    ELSE "<ValueError>"

\* MUTANT of JoinArgs: the arguments are put side by side without a separator.
JoinArgs_unseparated(arguments) ==
    [i \in 1..Len(arguments) |-> format_arg(arguments[i])]

\* ', '.join(format_arg(a) for a in arguments)
RECURSIVE JoinArgs(_)
JoinArgs(arguments) ==
    IF arguments = <<>> THEN <<>>
    ELSE IF Len(arguments) = 1 THEN << format_arg(arguments[1]) >>
    ELSE << format_arg(Head(arguments)), ", " >> \o JoinArgs(Tail(arguments))

StepLine(step) ==
    << "    ", step.output_var, " = ", step.callee, "(" >> \o JoinArgs(step.arguments) \o << ")" >>

hypothesis_to_code(hypothesis, task_id) ==
    << << "def solve_", task_id, "(I):" >> >>
    \o [i \in 1..Len(hypothesis.steps) |-> StepLine(hypothesis.steps[i])]
    \o << << "    return O" >> >>

\* What a rendering call gives back: the text, or the exception it raised.
Rendered(text) == [raised |-> "", text |-> text]
Raised(exception) == [raised |-> exception, text |-> <<>>]

\* MUTANT of hypothesis_to_lambda: the first step is rendered whatever follows it.
hypothesis_to_lambda_first(hypothesis) ==
    IF Len(hypothesis.steps) = 0 THEN Raised("ValueError")
    ELSE LET step == hypothesis.steps[1]
         IN  IF step.tag = "PrimitiveCall"
             THEN Rendered(<< << "lambda I: ", step.callee, "(" >>
                              \o JoinArgs(step.arguments) \o << ")" >> >>)
             ELSE Raised("ValueError")

hypothesis_to_lambda(hypothesis) ==
    IF Len(hypothesis.steps) # 1 THEN Raised("ValueError")
    ELSE LET step == hypothesis.steps[1]
         IN  IF step.tag = "PrimitiveCall"
             THEN Rendered(<< << "lambda I: ", step.callee, "(" >>
                              \o JoinArgs(step.arguments) \o << ")" >> >>)
             ELSE Raised("ValueError")

(***************************************************************************)
(* The libraries (catalogs, ordered by name as extract_primitives leaves   *)
(* them) and the example lists the searches are run on.                    *)
(***************************************************************************)
LIB_NONE == <<>>
LIB_MAXIMUM == << PrimitiveInfo("maximum", <<INTEGER_SET>>, INTEGER) >>
LIB_VMIRROR == << PrimitiveInfo("vmirror", <<GRID>>, GRID) >>
LIB_STACK == << PrimitiveInfo("hmirror", <<GRID>>, GRID),
                PrimitiveInfo("vconcat", <<GRID, GRID>>, GRID) >>
LIB_REPLACE == << PrimitiveInfo("replace", <<GRID, INTEGER, INTEGER>>, GRID) >>
LIB_HIGHER == << PrimitiveInfo("argmax", <<CONTAINER, GenericCallable>>, ANY),
                 PrimitiveInfo("compose", <<GenericCallable, GenericCallable>>, GenericCallable),
                 PrimitiveInfo("vmirror", <<GRID>>, GRID) >>

\* compose without a return annotation: its declared return type is ANY.
LIB_UNANNOTATED == << PrimitiveInfo("compose", <<GenericCallable, GenericCallable>>, ANY),
                      PrimitiveInfo("vmirror", <<GRID>>, GRID) >>

G_A == GridV(<< <<1, 2>>, <<3, 4>> >>)
G_AV == GridV(<< <<2, 1>>, <<4, 3>> >>)
G_AH == GridV(<< <<3, 4>>, <<1, 2>> >>)
G_AHA == GridV(<< <<3, 4>>, <<1, 2>>, <<1, 2>>, <<3, 4>> >>)
G_B == GridV(<< <<0, 1, 0>> >>)
G_BV == GridV(<< <<0, 1, 0>> >>)
G_ONES == GridV(<< <<1, 1, 1>> >>)
G_C == GridV(<< <<5, 0>> >>)
G_CV == GridV(<< <<0, 5>> >>)

(***************************************************************************)
(* search.py: the state of one call of search.                             *)
(***************************************************************************)
VARIABLES
    primitives,     \* extract_primitives(dsl_module), which also serves as dsl_module
    task_examples,  \* the (input, expected) pairs
    task_id,        \* the name the code is rendered under
    max_depth,      \* None or the depth ceiling
    timeout,        \* None or the timeout, in ticks
    clock,          \* time.time() - start_time
    depth,
    total_tried,
    depth_tried,
    gen,            \* what the generator of this depth yields
    pos,            \* the generator's position: gen[pos] is yielded next
    hypothesis,     \* the loop variable, None before the first iteration
    pc,             \* "while", "for", "eval", "done" (returned), "raised"
    result,         \* None or the SearchResult returned
    check_time,     \* history: the clock reading of the last timeout check
    tried,          \* history: the hypotheses whose evaluation was started
    outcome         \* history: "found", "timeout", "exhausted", "error" or "" while running

\* The state that search_with_callback and enumerate_solutions have besides.
VARIABLES
    last_callback,   \* search_with_callback: the clock reading at the last callback
    callbacks,       \* history: the (depth, attempts, elapsed) the callback was called with
    reference,       \* history: None, or what search returned on the same arguments
    max_solutions,   \* enumerate_solutions: the limit given
    solutions_found, \* enumerate_solutions
    yielded          \* history: the SearchResults enumerate_solutions yielded

variants == << last_callback, callbacks, reference, max_solutions, solutions_found, yielded >>

vars == << primitives, task_examples, task_id, max_depth, timeout, clock, depth,
           total_tried, depth_tried, gen, pos, hypothesis, pc, result,
           check_time, tried, outcome, call, ret, prev, variants >>

\* Neither search_with_callback nor enumerate_solutions is running.
VariantsIdle ==
    /\ last_callback = 0 /\ callbacks = <<>> /\ reference = None
    /\ max_solutions = 0 /\ solutions_found = 0 /\ yielded = <<>>

\* No function is called directly while search runs.
NoCall == [fn |-> "", args |-> <<>>]
calls == << call, ret, prev >>

\* MUTANT of SearchResult: the count of the depth being visited is reported.
SearchResult_depth_count(h, code, d, n, elapsed) ==
    [hypothesis |-> h, code |-> code, depth |-> d, hypotheses_tried |-> depth_tried,
     time_elapsed |-> elapsed]

SearchResult(h, code, d, n, elapsed) ==
    [hypothesis |-> h, code |-> code, depth |-> d, hypotheses_tried |-> n,
     time_elapsed |-> elapsed]

\* MUTANT of DepthInBudget: the ceiling itself is excluded.
DepthInBudget_lt(d, limit) == limit = None \/ d < limit[1]

\* while max_depth is None or depth <= max_depth
DepthInBudget(d, limit) == limit = None \/ d <= limit[1]

\* MUTANT of TimeoutExceeded: the timeout counts as exceeded once it is reached.
TimeoutExceeded_ge(elapsed, limit) == limit # None /\ limit[1] # 0 /\ elapsed >= limit[1]

\* if timeout and (time.time() - start_time) > timeout
TimeoutExceeded(elapsed, limit) == limit # None /\ limit[1] # 0 /\ elapsed > limit[1]

ExVmirror == << <<G_A, G_AV>>, <<G_C, G_CV>> >>
ExIdentity == << <<G_A, G_A>> >>
ExHmirror == << <<G_A, G_AH>> >>
ExStack == << <<G_A, G_AHA>> >>
ExReplace == << <<G_B, G_ONES>> >>

DepthLimits == {None} \cup {Some(d) : d \in 0..(RecursionLimit + 1)}
Timeouts == {None} \cup {Some(t) : t \in 0..(MaxClock - 1)}
TaskIds == {"4c4377d9", "b1948b0a"}

\* A library, the example lists tried on it and the depth ceilings given.
Inputs ==
    { <<LIB_NONE, {ExVmirror}, DepthLimits>>,
      <<LIB_MAXIMUM, {ExVmirror}, DepthLimits>>,
      <<LIB_VMIRROR, {ExVmirror, ExIdentity, ExHmirror, <<>>}, DepthLimits>>,
      <<LIB_STACK, {ExStack, ExHmirror}, {Some(1), Some(2)}>>,
      <<LIB_REPLACE, {ExReplace, ExVmirror}, {Some(1), Some(2)}>>,
      <<LIB_HIGHER, {ExVmirror, ExIdentity}, {Some(1), Some(2)}>> }

Init ==
    /\ \E inp \in Inputs :
          /\ primitives = inp[1]
          /\ task_examples \in inp[2]
          /\ max_depth \in inp[3]
    /\ task_id \in TaskIds
    /\ timeout \in Timeouts
    /\ clock = 0
    /\ depth = 1
    /\ total_tried = 0
    /\ depth_tried = 0
    /\ gen = <<>>
    /\ pos = 1
    /\ hypothesis = None
    /\ pc = "while"
    /\ result = None
    /\ check_time = 0
    /\ tried = <<>>
    /\ outcome = ""
    /\ call = NoCall
    /\ ret = None
    /\ prev = None
    /\ VariantsIdle

inputs == << primitives, task_examples, task_id, max_depth, timeout >>

\* The head of the while loop: the depth is within budget and its generator
\* is created, or the loop ends and search returns None.
WhileDepth ==
    /\ pc = "while"
    /\ IF DepthInBudget(depth, max_depth)
       THEN /\ depth_tried' = 0
            /\ gen' = IF depth > RecursionLimit THEN <<>>
                      ELSE generate_at_depth(depth, primitives)
            /\ pos' = 1
            /\ pc' = "for"
            /\ UNCHANGED << result, outcome >>
       ELSE /\ pc' = "done"
            /\ result' = None
            /\ outcome' = "exhausted"
            /\ UNCHANGED << depth_tried, gen, pos >>
    /\ UNCHANGED << inputs, calls, variants, clock, depth, total_tried, hypothesis, check_time, tried >>

\* The generator is asked for its next hypothesis and fails: its nested
\* generators exceed the recursion limit, and the error leaves search.
ForRaise ==
    /\ pc = "for"
    /\ depth > RecursionLimit
    /\ pc' = "raised"
    /\ outcome' = "error"
    /\ UNCHANGED << inputs, calls, variants, clock, depth, total_tried, depth_tried, gen, pos,
                    hypothesis, result, check_time, tried >>

\* MUTANT of NextDepth: the depth is left as it is.
NextDepth_stay(d) == d

\* MUTANT of NextDepth: a depth is skipped.
NextDepth_skip(d) == d + 2

\* depth += 1
NextDepth(d) == d + 1

\* The generator is exhausted and the next depth is taken up.
ForExhausted ==
    /\ pc = "for"
    /\ depth <= RecursionLimit
    /\ pos > Len(gen)
    /\ depth' = NextDepth(depth)
    /\ pc' = "while"
    /\ UNCHANGED << inputs, calls, variants, clock, total_tried, depth_tried, gen, pos, hypothesis,
                    result, check_time, tried, outcome >>

\* The generator yields the next hypothesis; the timeout is checked, and
\* either search returns None or the hypothesis is counted.  (reference is
\* None while search itself runs.)
ForNext ==
    /\ pc = "for"
    /\ reference = None
    /\ depth <= RecursionLimit
    /\ pos <= Len(gen)
    /\ hypothesis' = Some(gen[pos])
    /\ pos' = pos + 1
    /\ check_time' = clock
    /\ IF TimeoutExceeded(clock, timeout)
       THEN /\ pc' = "done"
            /\ result' = None
            /\ outcome' = "timeout"
            /\ UNCHANGED << total_tried, depth_tried, tried >>
       ELSE /\ depth_tried' = depth_tried + 1
            /\ total_tried' = total_tried + 1
            /\ tried' = Append(tried, gen[pos])
            /\ pc' = "eval"
            /\ UNCHANGED << result, outcome >>
    /\ UNCHANGED << inputs, calls, variants, clock, depth, gen >>

\* The hypothesis is evaluated; a passing one is rendered and returned.
\* search reads the time again for the elapsed time; search_with_callback
\* takes the time it read before the timeout check.
Evaluate ==
    /\ pc = "eval"
    /\ IF evaluate_hypothesis(hypothesis[1], task_examples, primitives, ConstantsModule)
       THEN /\ result' = Some(SearchResult(hypothesis[1],
                                  hypothesis_to_code(hypothesis[1], task_id),
                                  depth, total_tried,
                                  IF reference = None THEN clock ELSE check_time))
            /\ pc' = "done"
            /\ outcome' = "found"
       ELSE /\ pc' = "for"
            /\ UNCHANGED << result, outcome >>
    /\ UNCHANGED << inputs, calls, variants, clock, depth, total_tried, depth_tried, gen, pos,
                    hypothesis, check_time, tried >>

\* Wall-clock time passes while search runs, whatever it is doing.
Tick ==
    /\ pc \in {"while", "for", "eval"}
    /\ clock < (IF reference = None THEN MaxClock ELSE MaxCallbackClock)
    /\ clock' = clock + 1
    /\ UNCHANGED << inputs, calls, variants, depth, total_tried, depth_tried, gen, pos, hypothesis,
                    pc, result, check_time, tried, outcome >>

Next == WhileDepth \/ ForRaise \/ ForExhausted \/ ForNext \/ Evaluate \/ Tick

Spec == Init /\ [][Next]_vars

(***************************************************************************)
(* Direct calls of the package's functions: a call is drawn, the function  *)
(* is applied to it, and may be applied to it again.                       *)
(***************************************************************************)
Call(fn, args) == [fn |-> fn, args |-> args]

\* The members of BaseType.
BaseTypes == {BOOLEAN_T, INTEGER, INTEGER_TUPLE, GRID, CELL, OBJECT, OBJECTS, INDICES,
              INDICES_SET, INTEGER_SET, TUPLE, TUPLE_TUPLE, CONTAINER,
              CONTAINER_CONTAINER, FROZENSET, ANY}

\* CallableType values of up to MaxArity inputs.
CallableTypes ==
    { CallableType(ins, out) :
        ins \in UNION { [1..n -> {ANY, GRID}] : n \in 0..MaxArity },
        out \in {ANY, GRID, BOOLEAN_T} }

Types == BaseTypes \cup CallableTypes

TypeCalls == { Call("is_type_compatible", <<a, p>>) : a \in Types, p \in Types }

\* A library and the depths generated from it.
GeneratorInputs ==
    { <<LIB_NONE, 1..RecursionLimit>>, <<LIB_MAXIMUM, 1..RecursionLimit>>,
      <<LIB_VMIRROR, 1..RecursionLimit>>, <<LIB_STACK, {1, 2}>>, <<LIB_REPLACE, {1, 2}>>,
      <<LIB_HIGHER, {1, 2}>>, <<LIB_UNANNOTATED, {1, 2}>> }

GeneratorCalls ==
    UNION { { Call("generate_at_depth", <<d, inp[1]>>) : d \in inp[2] } : inp \in GeneratorInputs }

\* Hypotheses built by hand, as a caller of the evaluator may build them.
H_VMIRROR == Hypothesis(<< PrimitiveCall("vmirror", <<Argument("input", "I")>>, "O") >>)
H_STACK ==
    Hypothesis(<< PrimitiveCall("hmirror", <<Argument("input", "I")>>, "x1"),
                  PrimitiveCall("vconcat", <<Argument("variable", "x1"),
                                             Argument("input", "I")>>, "O") >>)
H_REPLACE ==
    Hypothesis(<< PrimitiveCall("replace", <<Argument("input", "I"), Argument("constant", "ZERO"),
                                             Argument("constant", "ONE")>>, "O") >>)
H_COMPOSED ==
    Hypothesis(<< PrimitiveCall("compose", <<Argument("primitive", "vmirror"),
                                             Argument("primitive", "vmirror")>>, "x1"),
                  CallVariable("x1", <<Argument("input", "I")>>, "O") >>)
\* env['x1'] raises KeyError
H_UNDEFINED_VARIABLE == Hypothesis(<< PrimitiveCall("vmirror", <<Argument("variable", "x1")>>, "O") >>)
\* getattr(dsl_module, 'rot90') raises AttributeError
H_UNDEFINED_PRIMITIVE == Hypothesis(<< PrimitiveCall("rot90", <<Argument("input", "I")>>, "O") >>)
\* getattr(constants_module, 'SIX') raises AttributeError
H_UNDEFINED_CONSTANT ==
    Hypothesis(<< PrimitiveCall("replace", <<Argument("input", "I"), Argument("constant", "SIX"),
                                             Argument("constant", "TWO")>>, "O") >>)
\* argmax(I, vmirror) applies vmirror to a row of the grid, which raises
H_FAILING_CALL ==
    Hypothesis(<< PrimitiveCall("argmax", <<Argument("input", "I"),
                                            Argument("primitive", "vmirror")>>, "O") >>)
\* no step binds O: env['O'] raises KeyError
H_EMPTY == Hypothesis(<<>>)
H_CALL_ONLY == Hypothesis(<< CallVariable("x1", <<Argument("input", "I")>>, "O") >>)

\* O is bound twice: the second step reads the first binding
H_REBOUND ==
    Hypothesis(<< PrimitiveCall("hmirror", <<Argument("input", "I")>>, "O"),
                  PrimitiveCall("vconcat", <<Argument("variable", "O"),
                                             Argument("input", "I")>>, "O") >>)
\* the only step binds x1: env['O'] raises KeyError
H_NO_OUTPUT == Hypothesis(<< PrimitiveCall("vmirror", <<Argument("input", "I")>>, "x1") >>)

\* A library and the hand-built hypotheses run on it.
EvaluatorInputs ==
    { <<LIB_VMIRROR, {H_VMIRROR, H_UNDEFINED_VARIABLE, H_UNDEFINED_PRIMITIVE, H_EMPTY, H_CALL_ONLY}>>,
      <<LIB_STACK, {H_STACK}>>,
      <<LIB_REPLACE, {H_REPLACE, H_UNDEFINED_CONSTANT}>>,
      <<LIB_HIGHER, {H_FAILING_CALL, H_COMPOSED, H_VMIRROR}>> }

ExamplePool == { <<G_A, G_AV>>, <<G_C, G_CV>>, <<G_A, G_A>>, <<G_A, G_AHA>>, <<G_B, G_ONES>> }

ExampleLists == UNION { [1..n -> ExamplePool] : n \in 0..MaxExamples }

EvaluatorCalls ==
    UNION { { Call("evaluate_hypothesis", <<h, examples, inp[1]>>) :
                h \in inp[2], examples \in ExampleLists } : inp \in EvaluatorInputs }

\* The hypotheses handed to the renderers.
RenderedHypotheses ==
    { H_VMIRROR, H_STACK, H_REPLACE, H_COMPOSED, H_UNDEFINED_VARIABLE, H_UNDEFINED_PRIMITIVE,
      H_UNDEFINED_CONSTANT, H_FAILING_CALL, H_EMPTY, H_CALL_ONLY }

CodeCalls ==
    { Call("hypothesis_to_code", <<h, name>>) : h \in RenderedHypotheses, name \in TaskIds }

LambdaCalls == { Call("hypothesis_to_lambda", <<h>>) : h \in RenderedHypotheses }

\* A primitive of no parameters, as enumerate_bindings provides for.
NULLARY == PrimitiveInfo("nullary", <<>>, GRID)

\* The environments a step is generated in: the initial one, and the one
\* after each one-step partial over the catalog.
EnvsOver(catalog) ==
    {TypeEnv} \cup { build_type_env(p, catalog) :
                        p \in Range(generate_partials_at_depth(1, catalog)) }

Catalogs == {LIB_NONE, LIB_MAXIMUM, LIB_VMIRROR, LIB_STACK, LIB_REPLACE, LIB_HIGHER,
             LIB_UNANNOTATED}

BindingCalls ==
    UNION { { Call("enumerate_bindings", <<prim_info, env, catalog>>) :
                prim_info \in Range(catalog) \cup {NULLARY}, env \in EnvsOver(catalog) } :
            catalog \in Catalogs }

InputGrids == {G_A, G_B, G_C}

ExecutorInputs ==
    EvaluatorInputs \cup { <<LIB_STACK, {H_REBOUND}>>, <<LIB_VMIRROR, {H_NO_OUTPUT}>> }

ExecutorCalls ==
    UNION { { Call("execute_hypothesis", <<h, input_grid, inp[1]>>) :
                h \in inp[2], input_grid \in InputGrids } : inp \in ExecutorInputs }

ArgumentCalls ==
    UNION { { Call("get_possible_arguments", <<param_type, env, catalog, include_primitives>>) :
                param_type \in Types, env \in EnvsOver(catalog),
                include_primitives \in BOOLEAN } :
            catalog \in Catalogs }

\* The calls tried, one kind at a time.
IsCall(c) ==
    \/ c \in TypeCalls
    \/ c \in GeneratorCalls
    \/ c \in EvaluatorCalls
    \/ c \in CodeCalls
    \/ c \in LambdaCalls
    \/ c \in BindingCalls
    \/ c \in ArgumentCalls
    \/ c \in ExecutorCalls

\* search is not running.
SearchIdle ==
    /\ primitives = <<>> /\ task_examples = <<>> /\ task_id = "" /\ max_depth = None
    /\ timeout = None /\ clock = 0 /\ depth = 1 /\ total_tried = 0 /\ depth_tried = 0
    /\ gen = <<>> /\ pos = 1 /\ hypothesis = None /\ pc = "idle" /\ result = None
    /\ check_time = 0 /\ tried = <<>> /\ outcome = ""

CallInit ==
    /\ SearchIdle
    /\ VariantsIdle
    /\ IsCall(call)
    /\ ret = None
    /\ prev = None

search_vars == << inputs, clock, depth, total_tried, depth_tried, gen, pos, hypothesis,
                 pc, result, check_time, tried, outcome >>

\* The call returns value; what it returned the time before is remembered.
Returns(value) ==
    /\ prev' = ret
    /\ ret' = Some(value)
    /\ UNCHANGED << search_vars, variants, call >>

Apply_is_type_compatible ==
    /\ call.fn = "is_type_compatible"
    /\ Returns(is_type_compatible(call.args[1], call.args[2]))

Apply_generate_at_depth ==
    /\ call.fn = "generate_at_depth"
    /\ Returns(generate_at_depth(call.args[1], call.args[2]))

Apply_evaluate_hypothesis ==
    /\ call.fn = "evaluate_hypothesis"
    /\ Returns(evaluate_hypothesis(call.args[1], call.args[2], call.args[3], ConstantsModule))

Apply_hypothesis_to_code ==
    /\ call.fn = "hypothesis_to_code"
    /\ Returns(hypothesis_to_code(call.args[1], call.args[2]))

Apply_hypothesis_to_lambda ==
    /\ call.fn = "hypothesis_to_lambda"
    /\ Returns(hypothesis_to_lambda(call.args[1]))

Apply_enumerate_bindings ==
    /\ call.fn = "enumerate_bindings"
    /\ Returns(enumerate_bindings(call.args[1], call.args[2], call.args[3]))

Apply_get_possible_arguments ==
    /\ call.fn = "get_possible_arguments"
    /\ Returns(get_possible_arguments(call.args[1], call.args[2], call.args[3], call.args[4]))

Apply_execute_hypothesis ==
    /\ call.fn = "execute_hypothesis"
    /\ Returns(execute_hypothesis(call.args[1], call.args[2], call.args[3], ConstantsModule))

CallNext ==
    \/ Apply_is_type_compatible
    \/ Apply_generate_at_depth
    \/ Apply_evaluate_hypothesis
    \/ Apply_hypothesis_to_code
    \/ Apply_hypothesis_to_lambda
    \/ Apply_enumerate_bindings
    \/ Apply_get_possible_arguments
    \/ Apply_execute_hypothesis

CallSpec == CallInit /\ [][CallNext]_vars

(***************************************************************************)
(* search.py: one call of enumerate_solutions, consumed to its end.  The   *)
(* locals it shares with search are kept in search's variables; max_depth  *)
(* is always an integer here, kept as Some(max_depth).                     *)
(***************************************************************************)
\* A library and the example lists enumerated on it.
EnumInputs ==
    { <<LIB_NONE, {ExVmirror}>>,
      <<LIB_VMIRROR, {ExVmirror, ExIdentity, ExHmirror, <<>>}>>,
      <<LIB_STACK, {ExStack, ExHmirror}>> }

EnumInit ==
    /\ \E inp \in EnumInputs :
          /\ primitives = inp[1]
          /\ task_examples \in inp[2]
    /\ max_depth \in {Some(d) : d \in 0..(RecursionLimit + 1)}
    /\ max_solutions \in 0..MaxSolutions
    /\ task_id \in TaskIds
    /\ timeout = None
    /\ clock = 0
    /\ depth = 1
    /\ total_tried = 0
    /\ depth_tried = 0
    /\ gen = <<>>
    /\ pos = 1
    /\ hypothesis = None
    /\ pc = "range"
    /\ result = None
    /\ check_time = 0
    /\ tried = <<>>
    /\ outcome = ""
    /\ solutions_found = 0
    /\ yielded = <<>>
    /\ last_callback = 0 /\ callbacks = <<>> /\ reference = None
    /\ call = NoCall /\ ret = None /\ prev = None

enum_unchanged == << inputs, calls, last_callback, callbacks, reference, max_solutions,
                    depth_tried, result, check_time >>

\* for depth in range(1, max_depth + 1): the next depth's generator is
\* created, or the range is exhausted and the enumeration ends.
EnumRange ==
    /\ pc = "range"
    /\ IF depth <= max_depth[1]
       THEN /\ gen' = IF depth > RecursionLimit THEN <<>>
                      ELSE generate_at_depth(depth, primitives)
            /\ pos' = 1
            /\ pc' = "for"
            /\ UNCHANGED outcome
       ELSE /\ pc' = "done"
            /\ outcome' = "exhausted"
            /\ UNCHANGED << gen, pos >>
    /\ UNCHANGED << enum_unchanged, clock, depth, total_tried, hypothesis, tried,
                    solutions_found, yielded >>

\* The generator's nested generators exceed the recursion limit.
EnumRaise ==
    /\ pc = "for"
    /\ depth > RecursionLimit
    /\ pc' = "raised"
    /\ outcome' = "error"
    /\ UNCHANGED << enum_unchanged, clock, depth, total_tried, gen, pos, hypothesis, tried,
                    solutions_found, yielded >>

\* The depth's generator is exhausted: range gives the next depth.
EnumExhausted ==
    /\ pc = "for"
    /\ depth <= RecursionLimit
    /\ pos > Len(gen)
    /\ depth' = depth + 1
    /\ pc' = "range"
    /\ UNCHANGED << enum_unchanged, clock, total_tried, gen, pos, hypothesis, tried,
                    outcome, solutions_found, yielded >>

\* The generator yields the next hypothesis, which is counted.
EnumNextHypothesis ==
    /\ pc = "for"
    /\ depth <= RecursionLimit
    /\ pos <= Len(gen)
    /\ hypothesis' = Some(gen[pos])
    /\ pos' = pos + 1
    /\ total_tried' = total_tried + 1
    /\ tried' = Append(tried, gen[pos])
    /\ pc' = "eval"
    /\ UNCHANGED << enum_unchanged, clock, depth, gen, outcome, solutions_found, yielded >>

\* The hypothesis is evaluated; a passing one is yielded and counted, and
\* the enumeration returns when the count has reached max_solutions.
EnumEvaluate ==
    /\ pc = "eval"
    /\ IF evaluate_hypothesis(hypothesis[1], task_examples, primitives, ConstantsModule)
       THEN /\ yielded' = Append(yielded,
                              SearchResult(hypothesis[1],
                                           hypothesis_to_code(hypothesis[1], task_id),
                                           depth, total_tried, clock))
            /\ solutions_found' = solutions_found + 1
            /\ IF solutions_found + 1 >= max_solutions
               THEN pc' = "done" /\ outcome' = "limit"
               ELSE pc' = "for" /\ UNCHANGED outcome
       ELSE /\ pc' = "for"
            /\ UNCHANGED << yielded, solutions_found, outcome >>
    /\ UNCHANGED << enum_unchanged, clock, depth, total_tried, gen, pos, hypothesis, tried >>

EnumNext ==
    EnumRange \/ EnumRaise \/ EnumExhausted \/ EnumNextHypothesis \/ EnumEvaluate \/ Tick

EnumSpec == EnumInit /\ [][EnumNext]_vars

(***************************************************************************)
(* search.py: search_with_callback, called with the arguments search was   *)
(* just called with.  Its locals are kept in search's variables;           *)
(* current_time is check_time.  The loop head, the end of a depth and the  *)
(* evaluation are the same statements in both functions, and WhileDepth,   *)
(* ForRaise, ForExhausted and Evaluate serve both; the body of the for     *)
(* loop up to the evaluation differs, and is CbNext here.                  *)
(***************************************************************************)
PairLibraries == {LIB_NONE, LIB_VMIRROR, LIB_STACK}

PairInit == Init /\ primitives \in PairLibraries

\* What is compared of a call of search: whether it returned, what it
\* returned but for the time, and whether it gave up on the timeout.
Summary(returned, value, timed_out) ==
    [returned |-> returned,
     result |-> IF value = None THEN None
                ELSE Some([hypothesis |-> value[1].hypothesis, code |-> value[1].code,
                           depth |-> value[1].depth,
                           hypotheses_tried |-> value[1].hypotheses_tried]),
     timed_out |-> timed_out]

\* if current_time - last_callback > 0.5
CallbackDue(current_time, last) == current_time - last > CALLBACK_INTERVAL

pair_unchanged == << inputs, calls, max_solutions, solutions_found, yielded, depth_tried >>

\* search has ended; search_with_callback is called with the same arguments.
CallWithCallback ==
    /\ pc \in {"done", "raised"}
    /\ reference = None
    /\ reference' = Some(Summary(pc = "done", result, outcome = "timeout"))
    /\ clock' = 0
    /\ depth' = 1
    /\ total_tried' = 0
    /\ last_callback' = 0
    /\ callbacks' = <<>>
    /\ gen' = <<>>
    /\ pos' = 1
    /\ hypothesis' = None
    /\ pc' = "while"
    /\ result' = None
    /\ check_time' = 0
    /\ tried' = <<>>
    /\ outcome' = ""
    /\ UNCHANGED pair_unchanged

\* The generator yields the next hypothesis; the time is read, the timeout
\* is checked, the callback is called if it is due, and the hypothesis is
\* counted.  `started` records how many evaluations were started before.
CbNext ==
    /\ pc = "for"
    /\ reference # None
    /\ depth <= RecursionLimit
    /\ pos <= Len(gen)
    /\ hypothesis' = Some(gen[pos])
    /\ pos' = pos + 1
    /\ check_time' = clock
    /\ IF TimeoutExceeded(clock, timeout)
       THEN /\ pc' = "done"
            /\ result' = None
            /\ outcome' = "timeout"
            /\ UNCHANGED << total_tried, tried, last_callback, callbacks >>
       ELSE /\ IF CallbackDue(clock, last_callback)
               THEN /\ callbacks' = Append(callbacks,
                                          [depth |-> depth, attempts |-> total_tried,
                                           elapsed |-> clock, started |-> Len(tried)])
                    /\ last_callback' = clock
               ELSE UNCHANGED << callbacks, last_callback >>
            /\ total_tried' = total_tried + 1
            /\ tried' = Append(tried, gen[pos])
            /\ pc' = "eval"
            /\ UNCHANGED << result, outcome >>
    /\ UNCHANGED << pair_unchanged, clock, depth, gen, reference >>

PairNext ==
    \/ WhileDepth \/ ForRaise \/ ForExhausted \/ ForNext \/ Evaluate \/ Tick
    \/ CallWithCallback \/ CbNext

PairSpec == PairInit /\ [][PairNext]_vars

(***************************************************************************)
(* Properties of search and of the generator.                              *)
(***************************************************************************)
\* h reproduces every example: its execution succeeds and equals the expected output.
PassesAll(h) ==
    \A i \in 1..Len(task_examples) :
        LET out == execute_hypothesis(h, task_examples[i][1], primitives, ConstantsModule)
        IN  out # ERR /\ out = task_examples[i][2]

Returned == pc \in {"done", "raised"}

\* generate_at_depth(1) followed by ... followed by generate_at_depth(n).
RECURSIVE EnumeratedTo(_)
EnumeratedTo(n) ==
    IF n <= 0 THEN <<>> ELSE EnumeratedTo(n - 1) \o generate_at_depth(n, primitives)

\* The depths the ceiling allows and the generator can produce.
DepthsWithin == {d \in 1..RecursionLimit : max_depth = None \/ d <= max_depth[1]}

\* C1: a returned SearchResult holds a hypothesis that evaluate accepts on
\* the whole example list, its depth field is the number of steps of that
\* hypothesis, and its code is that hypothesis rendered under task_id.
C1_SearchSound ==
    result # None =>
        /\ evaluate_hypothesis(result[1].hypothesis, task_examples, primitives, ConstantsModule)
        /\ result[1].depth = Len(result[1].hypothesis.steps)
        /\ result[1].code = hypothesis_to_code(result[1].hypothesis, task_id)

C1_Witness ==
    /\ pc = "done" /\ result # None
    /\ result[1].depth = 2 /\ task_examples # <<>>

\* C2: when search returns a hypothesis of depth d, every hypothesis of
\* every depth below d was tried in this run and none of them passes all
\* examples.
C2_Minimality ==
    result # None =>
        \A d \in 1..(result[1].depth - 1) :
            \A h \in Range(generate_at_depth(d, primitives)) :
                h \in Range(tried) /\ ~PassesAll(h)

C2_Witness ==
    /\ pc = "done" /\ result # None /\ result[1].depth = 2
    /\ generate_at_depth(1, primitives) # <<>>

\* C3: the returned hypothesis is the first of generate_at_depth(depth), in
\* the order it is yielded, that passes all examples.
C3_FirstInOrder ==
    result # None =>
        LET hs == generate_at_depth(result[1].depth, primitives)
        IN  \E k \in 1..Len(hs) :
                /\ hs[k] = result[1].hypothesis
                /\ PassesAll(hs[k])
                /\ \A j \in 1..(k - 1) : ~PassesAll(hs[j])

C3_Witness == pc = "done" /\ result # None /\ depth_tried > 1

\* C4: a search that was given a depth ceiling or a timeout ends by
\* returning a SearchResult or NoResult (it never ends in an error).
C4_Termination ==
    (max_depth # None \/ timeout # None) => pc # "raised"

\* C5: no evaluation starts after a check at which the elapsed time
\* exceeded the supplied timeout.
C5_TimeoutPolling ==
    pc = "eval" => (timeout = None \/ check_time <= timeout[1])

\* C6 as stated: a timeout shorter than the time the depth takes yields
\* NoResult, so a result found at depth 1 was returned within the timeout.
C6_ScenarioE ==
    (result # None /\ result[1].depth = 1 /\ timeout # None /\ timeout[1] > 0)
        => result[1].time_elapsed <= timeout[1]

\* C6 amended: when search aborts on the timeout it returns NoResult from a
\* between-hypotheses check that read a time beyond the timeout, before the
\* depth is enumerated to its end: the hypothesis just yielded and all that
\* follow it at this depth are left unevaluated.
C6_TimeoutAbort ==
    outcome = "timeout" =>
        /\ pc = "done" /\ result = None
        /\ timeout # None /\ check_time > timeout[1]
        /\ pos - 1 \in 1..Len(gen)
        /\ hypothesis = Some(gen[pos - 1])
        /\ depth_tried = pos - 2
        /\ SubSeq(tried, Len(tried) - depth_tried + 1, Len(tried)) = SubSeq(gen, 1, pos - 2)

C6_Witness ==
    /\ outcome = "timeout"
    /\ \E j \in (pos - 1)..Len(gen) : PassesAll(gen[j])

\* C7: with a depth ceiling, when no hypothesis of the depths up to it
\* passes and no timeout fires, search returns NoResult having tried exactly
\* the hypotheses of depths 1..max_depth.
C7_Exhaustion ==
    ( /\ Returned /\ max_depth # None /\ outcome # "timeout"
      /\ \A d \in DepthsWithin :
            \A h \in Range(generate_at_depth(d, primitives)) : ~PassesAll(h) )
    => /\ pc = "done" /\ result = None
       /\ tried = EnumeratedTo(max_depth[1])

\* C8: when some hypothesis of a depth within the ceiling passes all
\* examples and search does not abort on the timeout, search returns a
\* SearchResult.
C8_Completeness ==
    ( /\ Returned /\ outcome # "timeout"
      /\ \E d \in DepthsWithin :
            \E h \in Range(generate_at_depth(d, primitives)) : PassesAll(h) )
    => pc = "done" /\ result # None

C8_Witness ==
    /\ pc = "done" /\ result # None /\ result[1].depth = 1 /\ max_depth = Some(1)
    /\ LET step == result[1].hypothesis.steps[1]
       IN  /\ Len(step.arguments) = 3
           /\ step.arguments[1].kind = "input"
           /\ step.arguments[2].kind = "constant"
           /\ step.arguments[3].kind = "constant"

\* The declared return type of the primitive a step calls is compatible with the grid type.
ReturnsGrid(step) ==
    LET info == DictGet(primitives, step.callee)
    IN  info # None /\ is_type_compatible(info[1].return_type, GRID)

\* One PrimitiveCall bound to O whose return type fits a grid and whose
\* arguments are all of the kinds given.
SingleStep(h, kinds) ==
    /\ Len(h.steps) = 1
    /\ h.steps[1].tag = "PrimitiveCall"
    /\ h.steps[1].output_var = "O"
    /\ ReturnsGrid(h.steps[1])
    /\ \A a \in Range(h.steps[1].arguments) : a.kind \in kinds

\* C9 as stated: the arguments of a depth-1 hypothesis are the input and constants only.
C9_DepthOne ==
    (pc = "for" /\ depth = 1) =>
        \A h \in Range(gen) : SingleStep(h, {"input", "constant"})

\* C9 amended: every depth-1 hypothesis is one PrimitiveCall bound to O
\* whose declared return type is compatible with the grid type and whose
\* arguments are the input, constants or, for a Callable parameter,
\* references to primitives of the catalog, never variables.
C9_DepthOneRefs ==
    (pc = "for" /\ depth = 1) =>
        \A h \in Range(gen) :
            /\ SingleStep(h, {"input", "constant", "primitive"})
            /\ \A i \in 1..Len(h.steps[1].arguments) :
                  h.steps[1].arguments[i].kind = "primitive" =>
                      /\ IsCallable(DictGet(primitives, h.steps[1].callee)[1].param_types[i])
                      /\ DictGet(primitives, h.steps[1].arguments[i].value) # None

C9_Witness ==
    /\ pc = "for" /\ depth = 1
    /\ \E h \in Range(gen) : \E a \in Range(h.steps[1].arguments) : a.kind = "primitive"

\* The name "x<i>", spelled out.
XName(i) == CASE i = 1 -> "x1" [] i = 2 -> "x2" [] i = 3 -> "x3" [] i = 4 -> "x4"
              [] OTHER -> "x?"

\* C10: at every depth d >= 2 a generated hypothesis has d steps bound, in
\* order, to x1 .. x{d-1} and then O, no name bound twice.
C10_StepNames ==
    (pc = "for" /\ depth >= 2 /\ depth <= RecursionLimit) =>
        \A h \in Range(gen) :
            /\ Len(h.steps) = depth
            /\ \A i \in 1..(depth - 1) : h.steps[i].output_var = XName(i)
            /\ h.steps[depth].output_var = "O"
            /\ \A i, j \in 1..depth :
                  i # j => h.steps[i].output_var # h.steps[j].output_var

C10_Witness == pc = "for" /\ depth = 3 /\ Len(gen) > 1

(***************************************************************************)
(* Properties of the type rules.                                           *)
(***************************************************************************)
TypeCallDone == call.fn = "is_type_compatible" /\ ret # None

\* C14: is_type_compatible is true whenever either side is ANY, for every
\* base type and every function type on the other side.
C14_Wildcard ==
    (TypeCallDone /\ (call.args[1] = ANY \/ call.args[2] = ANY)) => ret[1] = TRUE

C14_Witness ==
    /\ TypeCallDone /\ ret[1] = TRUE
    /\ call.args[1] = ANY
    /\ IsCallable(call.args[2]) /\ Len(call.args[2].input_types) = 2

\* The base type of the given name, and the kind of a type, as the rules name them.
Base(n) == [kind |-> "base", name |-> n, input_types |-> <<>>, output_type |-> <<>>]
IsFunctionType(t) == t.kind = "callable"
UnionFamilies ==
    { {Base("OBJECT"), Base("INDICES")},
      {Base("OBJECT"), Base("GRID")},
      {Base("GRID"), Base("OBJECT"), Base("INDICES")} }

\* The ten rules, the first that applies deciding.
TenRules(a, p) ==
    IF a = Base("ANY") \/ p = Base("ANY") THEN TRUE
    ELSE IF a = p THEN TRUE
    ELSE IF p = Base("CONTAINER")
        THEN a \in {Base("OBJECTS"), Base("INDICES"), Base("INTEGER_SET"), Base("TUPLE"),
                    Base("GRID"), Base("OBJECT"), Base("CONTAINER")}
    ELSE IF p = Base("CONTAINER_CONTAINER")
        THEN a \in {Base("OBJECTS"), Base("INDICES_SET"), Base("TUPLE_TUPLE"),
                    Base("CONTAINER_CONTAINER")}
    ELSE IF p = Base("FROZENSET")
        THEN a \in {Base("OBJECT"), Base("OBJECTS"), Base("INDICES"), Base("INDICES_SET"),
                    Base("INTEGER_SET"), Base("FROZENSET")}
    ELSE IF \E family \in UnionFamilies : a \in family /\ p \in family THEN TRUE
    ELSE IF p = Base("TUPLE")
        THEN a \in {Base("TUPLE"), Base("GRID"), Base("INTEGER_TUPLE"), Base("TUPLE_TUPLE")}
    ELSE IF IsFunctionType(a) /\ IsFunctionType(p)
        THEN Len(a.input_types) = Len(p.input_types)
    ELSE IF IsFunctionType(p) THEN FALSE
    ELSE FALSE

GeneratorCallDone == call.fn = "generate_at_depth" /\ ret # None

\* The type build_type_env assigns to O when it replays h.
InferredOutput(h, catalog) == EnvGet(build_type_env(h, catalog), "O")

\* C11: every hypothesis generate_at_depth yields ends in a step whose
\* type, as build_type_env infers it for O, is compatible with GRID.
C11_FinalGrid ==
    GeneratorCallDone =>
        \A h \in Range(ret[1]) :
            /\ InferredOutput(h, call.args[2]) # None
            /\ is_type_compatible(InferredOutput(h, call.args[2])[1], GRID)

AllowedAt(param_types, allow_refs, env, catalog) ==
    [i \in 1..Len(param_types) |->
        Range(get_possible_arguments(param_types[i], env, catalog,
                                     allow_refs /\ IsCallable(param_types[i])))]

\* The argument tuples that take an allowed argument at every position.
TuplesOf(allowed) ==
    { b \in [1..Len(allowed) -> UNION Range(allowed)] :
        \A i \in 1..Len(allowed) : b[i] \in allowed[i] }

\* The steps that may follow partial: a catalog primitive or a
\* function-typed variable, called with allowed arguments; a final step
\* returns a grid-compatible type.
AdmissibleSteps(partial, catalog, out, is_final) ==
    LET env == build_type_env(partial, catalog)
    IN  UNION { { PrimitiveCall(info.name, b, out) :
                    b \in TuplesOf(AllowedAt(info.param_types,
                                             info.name \in FUNCTION_TAKING_PRIMITIVES,
                                             env, catalog)) } :
                info \in { q \in Range(catalog) :
                             is_final => is_type_compatible(q.return_type, GRID) } }
        \cup
        UNION { { CallVariable(v.name, b, out) :
                    b \in TuplesOf(AllowedAt(v.type.input_types, FALSE, env, catalog)) } :
                v \in { e \in Range(env) :
                          /\ IsCallable(e.type)
                          /\ is_final => is_type_compatible(e.type.output_type[1], GRID) } }

StepName(i) == CASE i = 1 -> "x1" [] i = 2 -> "x2" [] i = 3 -> "x3" [] i = 4 -> "x4"
                 [] OTHER -> "x?"

\* The hypotheses of n steps, none of them final.
RECURSIVE AdmissiblePartials(_, _)
AdmissiblePartials(n, catalog) ==
    IF n = 0 THEN { Hypothesis(<<>>) }
    ELSE UNION { { Hypothesis(Append(p.steps, step)) :
                     step \in AdmissibleSteps(p, catalog, StepName(n), FALSE) } :
                 p \in AdmissiblePartials(n - 1, catalog) }

AdmissibleHypotheses(d, catalog) ==
    UNION { { Hypothesis(Append(p.steps, step)) :
                step \in AdmissibleSteps(p, catalog, "O", TRUE) } :
            p \in AdmissiblePartials(d - 1, catalog) }

\* x1 = hmirror(I); O = vconcat(x1, I)
ScenarioB ==
    Hypothesis(<< PrimitiveCall("hmirror", <<Argument("input", "I")>>, "x1"),
                  PrimitiveCall("vconcat", <<Argument("variable", "x1"),
                                             Argument("input", "I")>>, "O") >>)

\* C13: generate_at_depth(d) yields every d-step hypothesis whose steps call
\* a catalog primitive or an earlier function-typed variable with allowed
\* arguments and whose final step returns a grid-compatible type; over
\* hmirror and vconcat it yields x1 = hmirror(I); O = vconcat(x1, I) at depth 2.
C13_GeneratorComplete ==
    GeneratorCallDone =>
        /\ AdmissibleHypotheses(call.args[1], call.args[2]) \subseteq Range(ret[1])
        /\ (call.args[1] = 2 /\ call.args[2] = LIB_STACK) => ScenarioB \in Range(ret[1])

\* A hypothesis whose first step returns a function that its final step calls.
C13_Witness ==
    /\ GeneratorCallDone /\ call.args[1] = 2
    /\ \E h \in Range(ret[1]) :
          /\ h \in AdmissibleHypotheses(2, call.args[2])
          /\ h.steps[2].tag = "CallVariable"

(***************************************************************************)
(* Properties of the evaluator.                                            *)
(***************************************************************************)
EvaluatorCallDone == call.fn = "evaluate_hypothesis" /\ ret # None

\* Executing h on the input of example succeeds and gives the expected output.
Reproduces(h, example, library) ==
    LET out == execute_hypothesis(h, example[1], library, ConstantsModule)
    IN  out # ERR /\ out = example[2]

\* Executing h on the input of example fails.
FailsOn(h, example, library) ==
    execute_hypothesis(h, example[1], library, ConstantsModule) = ERR

\* C16: evaluate_hypothesis is true exactly when every example's execution
\* succeeds and equals the expected output; so it is true on the empty list.
C16_EvaluateIff ==
    EvaluatorCallDone =>
        /\ ret[1] = (\A i \in 1..Len(call.args[2]) :
                        Reproduces(call.args[1], call.args[2][i], call.args[3]))
        /\ call.args[2] = <<>> => ret[1] = TRUE

\* False because the second example mismatches, or fails, after a first that passes.
C16_Witness ==
    /\ EvaluatorCallDone /\ ret[1] = FALSE
    /\ Len(call.args[2]) = 2
    /\ Reproduces(call.args[1], call.args[2][1], call.args[3])
    /\ ~FailsOn(call.args[1], call.args[2][2], call.args[3])

\* Some example of the search's task makes the execution of h fail.
FailsInSearch(h) ==
    \E i \in 1..Len(task_examples) : FailsOn(h, task_examples[i], primitives)

\* C17: a hypothesis whose execution fails is refused by evaluate_hypothesis,
\* is counted as one attempt, and never ends the search: it is not returned,
\* and the hypotheses tried go on in enumeration order after it.  The first
\* conjunct is about the hypothesis tried last, the second about the whole
\* history once search has returned.
C17_FailureContained ==
    /\ (tried # <<>> /\ FailsInSearch(tried[Len(tried)])) =>
            /\ ~evaluate_hypothesis(tried[Len(tried)], task_examples, primitives, ConstantsModule)
            /\ total_tried = Len(tried)
            /\ result # None => result[1].hypothesis # tried[Len(tried)]
            /\ pc = "raised" => depth > RecursionLimit
            /\ pc = "done" => outcome \in {"exhausted", "timeout"}
    /\ Returned =>
            LET failing == {i \in 1..Len(tried) : FailsInSearch(tried[i])}
                order == EnumeratedTo(IF depth > RecursionLimit THEN RecursionLimit ELSE depth)
            IN  failing # {} =>
                    /\ \A i \in failing : result # None => result[1].hypothesis # tried[i]
                    /\ total_tried = Len(tried)
                    /\ Len(tried) <= Len(order) /\ tried = SubSeq(order, 1, Len(tried))

\* A failing hypothesis was tried and the search went on to the next one.
C17_Witness ==
    \E i \in 1..Len(tried) :
        /\ i < Len(tried)
        /\ FailsInSearch(tried[i])
        /\ total_tried = Len(tried)

\* E with example put in before position k.
InsertAt(E, k, example) == SubSeq(E, 1, k - 1) \o <<example>> \o SubSeq(E, k, Len(E))

\* C18: when evaluate_hypothesis is false on a list it is false on the list
\* with any further example added, wherever it is added.
C18_Monotone ==
    (EvaluatorCallDone /\ ret[1] = FALSE) =>
        \A example \in ExamplePool : \A k \in 1..(Len(call.args[2]) + 1) :
            ~evaluate_hypothesis(call.args[1], InsertAt(call.args[2], k, example),
                                 call.args[3], ConstantsModule)

\* False on a list to which an example that the hypothesis reproduces can be added.
C18_Witness ==
    /\ EvaluatorCallDone /\ ret[1] = FALSE /\ call.args[2] # <<>>
    /\ \E example \in ExamplePool : Reproduces(call.args[1], example, call.args[3])

(***************************************************************************)
(* Properties of the renderers.                                            *)
(***************************************************************************)
CodeCallDone == call.fn = "hypothesis_to_code" /\ ret # None

\* How an argument is written.
ArgText(a) == IF a.kind = "input" THEN "I" ELSE a.value

\* pieces, from position first on, are the arguments separated by ", " and
\* closed by ")".
ArgsThenClose(pieces, first, arguments) ==
    LET n == Len(arguments)
    IN  /\ Len(pieces) = first + (IF n = 0 THEN 0 ELSE 2 * n - 1)
        /\ \A k \in 1..n : pieces[first + 2 * (k - 1)] = ArgText(arguments[k])
        /\ \A k \in 1..(n - 1) : pieces[first + 2 * k - 1] = ", "
        /\ pieces[Len(pieces)] = ")"

\* C19: hypothesis_to_code gives depth + 2 lines: the header naming the
\* function, one line per step in step order reading
\* output_var = callee(args joined by ", "), and the return of O; a second
\* call on the same inputs gives the same text.
C19_CodeShape ==
    CodeCallDone =>
        LET steps == call.args[1].steps
            text == ret[1]
        IN  /\ Len(text) = Len(steps) + 2
            /\ text[1] = << "def solve_", call.args[2], "(I):" >>
            /\ \A i \in 1..Len(steps) :
                  /\ SubSeq(text[i + 1], 1, 5)
                        = << "    ", steps[i].output_var, " = ", steps[i].callee, "(" >>
                  /\ ArgsThenClose(text[i + 1], 6, steps[i].arguments)
            /\ text[Len(text)] = << "    return O" >>
            /\ prev # None => prev = ret

\* A two-step hypothesis ending in a variable call, rendered twice.
C19_Witness ==
    /\ CodeCallDone /\ prev # None
    /\ Len(call.args[1].steps) = 2
    /\ call.args[1].steps[2].tag = "CallVariable"
    /\ Len(call.args[1].steps[1].arguments) = 2

LambdaCallDone == call.fn = "hypothesis_to_lambda" /\ ret # None

\* C20: hypothesis_to_lambda returns lambda I: primitive(args) exactly when
\* the hypothesis is a single PrimitiveCall step; otherwise it raises and
\* returns no text.
C20_LambdaOnlySingleCall ==
    LambdaCallDone =>
        LET steps == call.args[1].steps
            single == Len(steps) = 1 /\ steps[1].tag = "PrimitiveCall"
        IN  /\ (ret[1].raised = "") = single
            /\ single =>
                  /\ Len(ret[1].text) = 1
                  /\ SubSeq(ret[1].text[1], 1, 3) = << "lambda I: ", steps[1].callee, "(" >>
                  /\ ArgsThenClose(ret[1].text[1], 4, steps[1].arguments)
            /\ ~single => ret[1].raised = "ValueError" /\ ret[1].text = <<>>

\* A hypothesis of two steps, the first a PrimitiveCall, is refused.
C20_Witness ==
    /\ LambdaCallDone /\ ret[1].raised = "ValueError"
    /\ Len(call.args[1].steps) = 2
    /\ call.args[1].steps[1].tag = "PrimitiveCall"

(***************************************************************************)
(* Properties of the argument enumeration.                                 *)
(***************************************************************************)
BindingCallDone == call.fn = "enumerate_bindings" /\ ret # None

\* The candidate list of every parameter position of prim_info in env.
CandidateLists(prim_info, env, catalog) ==
    [i \in 1..Len(prim_info.param_types) |->
        get_possible_arguments(prim_info.param_types[i], env, catalog,
            prim_info.name \in FUNCTION_TAKING_PRIMITIVES
              /\ IsCallable(prim_info.param_types[i]))]

RECURSIVE CountProduct(_)
CountProduct(lists) ==
    IF lists = <<>> THEN 1 ELSE Len(Head(lists)) * CountProduct(Tail(lists))

\* C22: enumerate_bindings yields the one empty binding for a primitive of
\* no parameters, nothing when some position has no candidate, and
\* otherwise every tuple of the product of the candidate lists exactly
\* once, as many bindings as the product of the candidate counts.
C22_Bindings ==
    BindingCallDone =>
        LET lists == CandidateLists(call.args[1], call.args[2], call.args[3])
            tuples == TuplesOf([i \in 1..Len(lists) |-> Range(lists[i])])
            bindings == ret[1]
        IN  /\ Len(lists) = 0 => bindings = << <<>> >>
            /\ (\E i \in 1..Len(lists) : lists[i] = <<>>) => bindings = <<>>
            /\ (Len(lists) > 0 /\ \A i \in 1..Len(lists) : lists[i] # <<>>) =>
                   /\ Len(bindings) = CountProduct(lists)
                   /\ Range(bindings) \subseteq tuples
                   /\ \A t \in tuples :
                          Cardinality({k \in 1..Len(bindings) : bindings[k] = t}) = 1

\* A primitive of several parameters, two of them with several candidates.
C22_Witness ==
    /\ BindingCallDone
    /\ Len(call.args[1].param_types) = 3
    /\ Len(ret[1]) >= 4

ArgumentCallDone == call.fn = "get_possible_arguments" /\ ret # None

\* The type of the parameter that argument position i of step fills, when
\* prefix holds the steps before it.
ParameterType(step, i, prefix, catalog) ==
    IF step.tag = "PrimitiveCall"
    THEN DictGet(catalog, step.callee)[1].param_types[i]
    ELSE EnvGet(build_type_env(Hypothesis(prefix), catalog), step.callee)[1].input_types[i]

\* C23: get_possible_arguments returns exactly the input when GRID fits the
\* parameter, the constants whose type fits, the variables other than I
\* whose type fits, and, when allowed or when the parameter is a function
\* type, the primitives whose function type fits; so no generated step
\* passes a primitive where the parameter is not a function type.
C23_PossibleArguments ==
    /\ ArgumentCallDone =>
          LET param_type == call.args[1]
              env == call.args[2]
              catalog == call.args[3]
              allow == call.args[4]
              expected ==
                  { Argument("input", "I") : x \in { y \in {1} : is_type_compatible(GRID, param_type) } }
                  \cup { Argument("constant", c.name) :
                           c \in { k \in Range(ConstantsTable) : is_type_compatible(k.type, param_type) } }
                  \cup { Argument("variable", v.name) :
                           v \in { e \in Range(env) :
                                     e.name # "I" /\ is_type_compatible(e.type, param_type) } }
                  \cup { Argument("primitive", q.name) :
                           q \in { r \in Range(catalog) :
                                     /\ allow \/ IsCallable(param_type)
                                     /\ is_type_compatible(CallableType(r.param_types, r.return_type),
                                                           param_type) } }
          IN  /\ Range(ret[1]) = expected
              /\ Len(ret[1]) = Cardinality(expected)
    /\ GeneratorCallDone =>
          \A h \in Range(ret[1]) : \A s \in 1..Len(h.steps) :
              \A i \in 1..Len(h.steps[s].arguments) :
                  h.steps[s].arguments[i].kind = "primitive" =>
                      IsCallable(ParameterType(h.steps[s], i, SubSeq(h.steps, 1, s - 1),
                                               call.args[2]))

\* Primitives are offered for a function-typed parameter although
\* include_primitives is false, next to a variable of the environment.
C23_Witness ==
    /\ ArgumentCallDone
    /\ ~call.args[4] /\ IsCallable(call.args[1])
    /\ \E a \in Range(ret[1]) : a.kind = "primitive"
    /\ \E a \in Range(ret[1]) : a.kind = "variable"

(***************************************************************************)
(* Properties of the executor.                                             *)
(***************************************************************************)
ExecutorCallDone == call.fn = "execute_hypothesis" /\ ret # None

\* The names bound when step s of h starts: the input and the output
\* variables of the steps before it.
BoundBefore(h, s) == {"I"} \cup { h.steps[j].output_var : j \in 1..(s - 1) }

\* h refers to something undefined, or never binds O.
RefersToUndefined(h, library) ==
    \/ \E s \in 1..Len(h.steps) :
          LET step == h.steps[s]
          IN  \/ step.tag = "PrimitiveCall" /\ DictGet(library, step.callee) = None
              \/ step.tag = "CallVariable" /\ step.callee \notin BoundBefore(h, s)
              \/ \E a \in Range(step.arguments) :
                    \/ a.kind = "variable" /\ a.value \notin BoundBefore(h, s)
                    \/ a.kind = "constant" /\ DictGet(ConstantsModule, a.value) = None
                    \/ a.kind = "primitive" /\ DictGet(library, a.value) = None
    \/ \A s \in 1..Len(h.steps) : h.steps[s].output_var # "O"

\* What the dsl functions give: vmirror reverses each row, hmirror the rows,
\* vconcat stacks, replace substitutes, compose(vmirror, vmirror) is the identity.
ExpectedOutputs ==
    { <<H_VMIRROR, G_A, G_AV>>, <<H_VMIRROR, G_C, G_CV>>, <<H_VMIRROR, G_B, G_BV>>,
      <<H_STACK, G_A, G_AHA>>, <<H_REBOUND, G_A, G_AHA>>,
      <<H_REPLACE, G_B, G_ONES>>, <<H_REPLACE, G_A, G_A>>,
      <<H_COMPOSED, G_A, G_A>>, <<H_COMPOSED, G_C, G_C>> }

\* C24: execute_hypothesis returns what the steps, replayed in order from
\* I = input_grid, leave bound to O; it fails when a step names a variable
\* or callee that nothing bound, a primitive or constant that is not
\* defined, or when no step binds O.
C24_Execute ==
    ExecutorCallDone =>
        /\ RefersToUndefined(call.args[1], call.args[3]) => ret[1] = ERR
        /\ \A e \in ExpectedOutputs :
              (call.args[1] = e[1] /\ call.args[2] = e[2]) => ret[1] = e[3]

\* The only step succeeds and binds x1, so that no value is returned.
C24_Witness ==
    /\ ExecutorCallDone
    /\ call.args[1] = H_NO_OUTPUT
    /\ ret[1] = ERR

(***************************************************************************)
(* Properties of the generated hypotheses.                                 *)
(***************************************************************************)
\* The type build_type_env derives for the output of step j of h.
DerivedType(h, j, catalog) ==
    StepType(h.steps[j], build_type_env(Hypothesis(SubSeq(h.steps, 1, j - 1)), catalog), catalog)

\* C27: in every hypothesis generate_at_depth yields, a Variable argument
\* names the output of an earlier step, the callee of a CallVariable step
\* is the output of an earlier step whose derived type is a function type,
\* and neither O nor I is a Variable argument or the output variable of a
\* step other than the last.
C27_DefinedBeforeUse ==
    GeneratorCallDone =>
        \A h \in Range(ret[1]) : \A s \in 1..Len(h.steps) :
            LET step == h.steps[s]
            IN  /\ \A a \in Range(step.arguments) :
                      a.kind = "variable" =>
                          /\ \E j \in 1..(s - 1) : h.steps[j].output_var = a.value
                          /\ a.value \notin {"O", "I"}
                /\ step.tag = "CallVariable" =>
                      \E j \in 1..(s - 1) :
                          /\ h.steps[j].output_var = step.callee
                          /\ IsCallable(DerivedType(h, j, call.args[2]))
                /\ s < Len(h.steps) => step.output_var \notin {"O", "I"}

\* One yielded hypothesis passes a variable, another calls one.
C27_Witness ==
    /\ GeneratorCallDone
    /\ \E h \in Range(ret[1]) : \E s \in 1..Len(h.steps) :
          \E a \in Range(h.steps[s].arguments) : a.kind = "variable"
    /\ \E h \in Range(ret[1]) : \E s \in 1..Len(h.steps) :
          h.steps[s].tag = "CallVariable"

\* No element of seq occurs twice in it.
NoDuplicates(seq) == Cardinality(Range(seq)) = Len(seq)

\* C26: no hypothesis is evaluated twice in a run of search: what
\* generate_at_depth yields for a depth holds no hypothesis twice, the hypothesis tried
\* last was not tried before, and the hypotheses are tried by increasing
\* number of steps, none with more steps than the depth being visited.
C26_NoRepeat ==
    /\ (pc = "for" /\ pos = 1) => NoDuplicates(gen)
    /\ tried # <<>> =>
          LET n == Len(tried)
          IN  /\ \A i \in 1..(n - 1) : tried[i] # tried[n]
              /\ Len(tried[n].steps) <= depth
              /\ n > 1 => Len(tried[n - 1].steps) <= Len(tried[n].steps)

\* A hypothesis of the second depth is tried after the first depth failed.
C26_Witness ==
    /\ pc = "eval"
    /\ Len(tried) > 2
    /\ Len(tried[1].steps) = 1
    /\ Len(tried[Len(tried)].steps) = 2

\* C29: the hypotheses_tried of a returned SearchResult is the position of
\* the returned hypothesis in generate_at_depth(1) followed by
\* generate_at_depth(2) and so on, hence at least 1; during the run the
\* counter is the number of hypotheses whose evaluation was started.
C29_AttemptCounter ==
    /\ total_tried = Len(tried)
    /\ result # None =>
          LET order == EnumeratedTo(result[1].depth)
              n == result[1].hypotheses_tried
          IN  /\ n >= 1
              /\ n <= Len(order)
              /\ order[n] = result[1].hypothesis
              /\ n = total_tried

\* The hypothesis returned is of the second depth: the count goes on from
\* the first depth's.
C29_Witness ==
    /\ result # None
    /\ result[1].depth = 2
    /\ result[1].hypotheses_tried > depth_tried
    /\ depth_tried >= 1

(***************************************************************************)
(* Properties of enumerate_solutions.                                      *)
(***************************************************************************)
\* C21: enumerate_solutions yields at most max_solutions results, each a
\* hypothesis that passes all examples, by non-decreasing depth, going on
\* after the first, and it stops when max_solutions results were yielded or
\* the depths up to max_depth are exhausted.
C21_EnumerateSolutions ==
    /\ Len(yielded) <= max_solutions
    /\ \A i \in 1..Len(yielded) :
          /\ PassesAll(yielded[i].hypothesis)
          /\ i > 1 => yielded[i - 1].depth <= yielded[i].depth
    /\ pc \in {"done", "raised"} =>
          \/ Len(yielded) = max_solutions
          \/ pc = "done" /\ depth = max_depth[1] + 1

(***************************************************************************)
(* Properties of search_with_callback.                                     *)
(***************************************************************************)
\* search_with_callback is running or has ended.
WithCallback == reference # None

\* C25: in search_with_callback the first callback comes more than the
\* interval after the start, two successive callbacks are more than the
\* interval apart, no callback is made at a check where the timeout is
\* already exceeded, and the attempts reported are the evaluations started
\* before the current hypothesis.
C25_CallbackInterval ==
    \A i \in 1..Len(callbacks) :
        /\ callbacks[i].elapsed > CALLBACK_INTERVAL
        /\ i > 1 => callbacks[i].elapsed - callbacks[i - 1].elapsed > CALLBACK_INTERVAL
        /\ timeout # None => callbacks[i].elapsed <= timeout[1]
        /\ callbacks[i].attempts = callbacks[i].started

\* Both calls have ended and neither gave up on the timeout.
BothEndedUntimed ==
    /\ WithCallback
    /\ pc \in {"done", "raised"}
    /\ ~reference[1].timed_out
    /\ outcome # "timeout"

\* C28: for the same examples, catalog and max_depth, in runs where no
\* timeout fires, search and search_with_callback both return None or both
\* return a result with the same hypothesis, depth, hypotheses_tried and
\* code.
C28_SameOutcome ==
    BothEndedUntimed =>
        /\ pc = "done"
        /\ reference[1].returned
        /\ Summary(TRUE, result, FALSE) = reference[1]

=============================================================================
